---- MODULE Spec2Model ----
(***************************************************************************)
(* StudBud front-end: state machines of the teacher Exam screen, the       *)
(* student Homework, ExamAndTests and FlashCards screens, and the          *)
(* CreateMeeting screen.                                                   *)
(*                                                                         *)
(* A JavaScript string is a sequence of one-character strings, so that     *)
(* trim(), parseInt() and truthiness are computed rather than assumed.     *)
(* Each screen owns its variables; a screen's specification leaves the     *)
(* other screens' variables untouched.                                     *)
(***************************************************************************)
EXTENDS Integers, Sequences, FiniteSets, TLC

VARIABLES
    \* ---- teacher Exam screen (Exam.tsx) ----
    quizData, isCreatingTest, step, questionType, questions,
    normalQuestion, mcqQuestion, options, correctIndex, testMeta,
    getExam, posts, alertMsg, edits,
    \* ---- browser local storage ----
    token,
    \* ---- student Homework screen (ExamAndTests.tsx, Homework) ----
    hwClassname, sId, homework, activeHomework, countdowns,
    userInfoReq, homeworkReq, marks, console,
    \* ticks seen by each started timer (history, not program state)
    timerLog,
    \* ---- FlashCards screen (FlashCards.tsx) ----
    flash_id, flashcard, getFlash, selectedDeck, selectedSubject,
    showModal, youtubeUrl, flashLoading, gens, flashAlert,
    \* the flash_id that the mount-time read asked for
    getFlashId,
    \* the flash_id whose get/flashcard answer is displayed (history)
    deckSource,
    \* ---- CreateMeeting screen (part_001) ----
    meeting, selectedDate, selectedTime, className, showForm, meetings,
    startUrl, meetFetches, creates, meetAlert, meetEdits,
    \* the local timezone of the browser, in minutes east of UTC
    tzOffset,
    \* the date and the time last entered by the user (history)
    enteredDate, enteredTime,
    \* ---- student ExamAndTests screen (ExamAndTests.tsx, ExamAndTests) ----
    exams, classname, loading, error, validateReq, examReqs, examsEffect

examVars == <<quizData, isCreatingTest, step, questionType, questions,
              normalQuestion, mcqQuestion, options, correctIndex, testMeta,
              getExam, posts, alertMsg, edits>>

hwVars == <<token, hwClassname, sId, homework, activeHomework, countdowns,
            userInfoReq, homeworkReq, marks, console, timerLog>>

\* the state of the Create New Deck modal and of its Generate flows
genVars == <<showModal, youtubeUrl, flashLoading, gens, flashAlert>>

flashVars == <<flash_id, flashcard, getFlash, selectedDeck, selectedSubject,
               genVars, getFlashId, deckSource>>

meetVars == <<meeting, selectedDate, selectedTime, className, showForm,
              meetings, startUrl, meetFetches, creates, meetAlert, meetEdits,
              tzOffset, enteredDate, enteredTime>>

etVars == <<exams, classname, loading, error, validateReq, examReqs,
            examsEffect>>

vars == <<examVars, hwVars, flashVars, meetVars, etVars>>

notExam == <<hwVars, flashVars, meetVars, etVars>>

notHomework == <<examVars, flashVars, meetVars, etVars>>

notFlash == <<examVars, hwVars, meetVars, etVars>>

notMeeting == <<examVars, hwVars, flashVars, etVars>>

notExamAndTests == <<examVars, hwVars, flashVars, meetVars>>

\* ------------------------------------------------------------------------
\* Bounds
\* ------------------------------------------------------------------------
\* number of onChange events (typing, radio selection) in one session
MaxEdits == 6
\* number of create/exam/post requests issued in one session
MaxPosts == 2
\* number of update/hwstatus requests issued in one session
MaxMarks == 2
\* ticks counted for one timer; later ticks are counted as this many
MaxTicks == 61

\* ------------------------------------------------------------------------
\* JavaScript strings
\* ------------------------------------------------------------------------
NULL == "null"

\* the null of a number-or-null state (correctIndex)
NoIndex == -1

EmptyStr == << >>

Truthy(s) == s # EmptyStr

IsSpace(c) == c = " "

RECURSIVE TrimStart(_)
TrimStart(s) ==
    IF s = EmptyStr THEN s
    ELSE IF IsSpace(Head(s)) THEN TrimStart(Tail(s)) ELSE s

RECURSIVE TrimEnd(_)
TrimEnd(s) ==
    IF s = EmptyStr THEN s
    ELSE IF IsSpace(s[Len(s)]) THEN TrimEnd(SubSeq(s, 1, Len(s) - 1)) ELSE s

Trim(s) == TrimEnd(TrimStart(s))

DigitChars == <<"0", "1", "2", "3", "4", "5", "6", "7", "8", "9">>

IsDigit(c) == \E d \in 1..10 : DigitChars[d] = c

DigitVal(c) == (CHOOSE d \in 1..10 : DigitChars[d] = c) - 1

\* the longest prefix of s made of decimal digits
RECURSIVE DigitPrefix(_)
DigitPrefix(s) ==
    IF s = EmptyStr \/ ~IsDigit(Head(s)) THEN EmptyStr
    ELSE <<Head(s)>> \o DigitPrefix(Tail(s))

RECURSIVE DigitsValue(_)
DigitsValue(ds) ==
    IF ds = EmptyStr THEN 0
    ELSE 10 * DigitsValue(SubSeq(ds, 1, Len(ds) - 1)) + DigitVal(ds[Len(ds)])

NaN == [nan |-> TRUE, val |-> 0]

Num(n) == [nan |-> FALSE, val |-> n]

\* parseInt(s): leading white space skipped, optional sign, then as many
\* decimal digits as there are; NaN when there is no digit.
ParseInt(s) ==
    LET t    == TrimStart(s)
        neg  == t # EmptyStr /\ Head(t) = "-"
        sgn  == t # EmptyStr /\ Head(t) \in {"-", "+"}
        body == IF sgn THEN Tail(t) ELSE t
        ds   == DigitPrefix(body)
    IN  IF ds = EmptyStr THEN NaN
        ELSE Num(IF neg THEN 0 - DigitsValue(ds) ELSE DigitsValue(ds))

IsNaN(x) == x.nan

\* ------------------------------------------------------------------------
\* Teacher Exam screen
\* ------------------------------------------------------------------------
\* what the user may type
NormalTexts == { EmptyStr, <<" ">>, <<" ", "a">> }
McqTexts    == { EmptyStr, <<"m", " ">> }
OptionTexts == { EmptyStr, <<"x">> }
MetaTexts   == { EmptyStr, <<"1">> }
MetaFields  == { "title", "class", "subject", "duration" }

\* what the backend may answer
ExamIds      == { "e1", "e2" }
GetExamLists == { << >>, <<"e1">> }

EmptyQuestions == [normalQuestions |-> << >>, multiplechoice |-> << >>]

DefaultMeta ==
    [title |-> EmptyStr, class |-> EmptyStr, subject |-> EmptyStr,
     duration |-> EmptyStr, time |-> "10:00 AM"]

EmptyOptions == <<EmptyStr, EmptyStr, EmptyStr, EmptyStr>>

\* Object.keys(o).length
KeyCount(o) == Cardinality(DOMAIN o)

\* { ...o, [k]: v }
Put(o, k, v) == [x \in (DOMAIN o) \cup {k} |-> IF x = k THEN v ELSE o[x]]

\* String(n) for a natural number n
RECURSIVE NumToStr(_)
NumToStr(n) ==
    IF n < 10 THEN <<DigitChars[n + 1]>>
    ELSE NumToStr(n \div 10) \o <<DigitChars[(n % 10) + 1]>>

ChoicePrefix == <<"c", "h", "o", "i", "c", "e">>

\* `choice${correctIndex}`: the off-by-one translation left out
ChoiceTagNoShift(i) == ChoicePrefix \o NumToStr(i)

\* `choice${correctIndex + 1}`
ChoiceTag(i) == ChoicePrefix \o NumToStr(i + 1)

\* the literals the 'Questions Added' list compares data.correct with, in
\* the order of the four list items
ChoiceLiterals ==
    << <<"c", "h", "o", "i", "c", "e", "1">>,
       <<"c", "h", "o", "i", "c", "e", "2">>,
       <<"c", "h", "o", "i", "c", "e", "3">>,
       <<"c", "h", "o", "i", "c", "e", "4">> >>

\* the option positions (0-based) the list shows in bold green for a tag
HighlightedOptions(tag) ==
    { p \in 0..3 : tag = ChoiceLiterals[p + 1] }

ExamInit ==
    /\ quizData = << >>
    /\ isCreatingTest = FALSE
    /\ step = 1
    /\ questionType = "normal"
    /\ questions = EmptyQuestions
    /\ normalQuestion = EmptyStr
    /\ mcqQuestion = EmptyStr
    /\ options = EmptyOptions
    /\ correctIndex = NoIndex
    /\ testMeta = DefaultMeta
    /\ getExam = "pending"
    /\ posts = << >>
    /\ alertMsg = NULL
    /\ edits = 0

\* the screen before its mount effect has run: no request in flight
ExamUnmounted ==
    /\ quizData = << >>
    /\ isCreatingTest = FALSE
    /\ step = 1
    /\ questionType = "normal"
    /\ questions = EmptyQuestions
    /\ normalQuestion = EmptyStr
    /\ mcqQuestion = EmptyStr
    /\ options = EmptyOptions
    /\ correctIndex = NoIndex
    /\ testMeta = DefaultMeta
    /\ getExam = "none"
    /\ posts = << >>
    /\ alertMsg = NULL
    /\ edits = 0

ClickCreateNewTest ==
    /\ ~isCreatingTest
    /\ isCreatingTest' = TRUE
    /\ UNCHANGED <<quizData, step, questionType, questions, normalQuestion,
                   mcqQuestion, options, correctIndex, testMeta, getExam,
                   posts, alertMsg, edits>>
    /\ UNCHANGED notExam

SetQuestionType(t) ==
    /\ isCreatingTest /\ step = 1
    /\ questionType' = t
    /\ UNCHANGED <<quizData, isCreatingTest, step, questions, normalQuestion,
                   mcqQuestion, options, correctIndex, testMeta, getExam,
                   posts, alertMsg, edits>>
    /\ UNCHANGED notExam

TypeNormalQuestion(v) ==
    /\ isCreatingTest /\ step = 1 /\ questionType = "normal"
    /\ edits < MaxEdits
    /\ edits' = edits + 1
    /\ normalQuestion' = v
    /\ UNCHANGED <<quizData, isCreatingTest, step, questionType, questions,
                   mcqQuestion, options, correctIndex, testMeta, getExam,
                   posts, alertMsg>>
    /\ UNCHANGED notExam

addNormalQuestion ==
    /\ isCreatingTest /\ step = 1 /\ questionType = "normal"
    /\ IF Truthy(Trim(normalQuestion))
       THEN LET qCount == KeyCount(questions.normalQuestions) + 1
            IN  /\ questions' =
                     [questions EXCEPT !.normalQuestions =
                          Put(@, qCount, Trim(normalQuestion))]
                /\ normalQuestion' = EmptyStr
       ELSE UNCHANGED <<questions, normalQuestion>>
    /\ UNCHANGED <<quizData, isCreatingTest, step, questionType,
                   mcqQuestion, options, correctIndex, testMeta, getExam,
                   posts, alertMsg, edits>>
    /\ UNCHANGED notExam

TypeMcqQuestion(v) ==
    /\ isCreatingTest /\ step = 1 /\ questionType = "mcq"
    /\ edits < MaxEdits
    /\ edits' = edits + 1
    /\ mcqQuestion' = v
    /\ UNCHANGED <<quizData, isCreatingTest, step, questionType, questions,
                   normalQuestion, options, correctIndex, testMeta, getExam,
                   posts, alertMsg>>
    /\ UNCHANGED notExam

TypeOption(idx, v) ==
    /\ isCreatingTest /\ step = 1 /\ questionType = "mcq"
    /\ edits < MaxEdits
    /\ edits' = edits + 1
    /\ options' = [options EXCEPT ![idx + 1] = v]
    /\ UNCHANGED <<quizData, isCreatingTest, step, questionType, questions,
                   normalQuestion, mcqQuestion, correctIndex, testMeta,
                   getExam, posts, alertMsg>>
    /\ UNCHANGED notExam

SelectCorrect(idx) ==
    /\ isCreatingTest /\ step = 1 /\ questionType = "mcq"
    /\ edits < MaxEdits
    /\ edits' = edits + 1
    /\ correctIndex' = idx
    /\ UNCHANGED <<quizData, isCreatingTest, step, questionType, questions,
                   normalQuestion, mcqQuestion, options, testMeta, getExam,
                   posts, alertMsg>>
    /\ UNCHANGED notExam

\* the multiple-choice record addMcqQuestion stores
McqRecord(q, opts, ci) ==
    [question |-> Trim(q),
     choice1 |-> opts[1], choice2 |-> opts[2],
     choice3 |-> opts[3], choice4 |-> opts[4],
     correct |-> ChoiceTag(ci)]

addMcqQuestion ==
    /\ isCreatingTest /\ step = 1 /\ questionType = "mcq"
    /\ IF /\ Truthy(Trim(mcqQuestion))
          /\ correctIndex # NoIndex
          /\ \A i \in 1..4 : Truthy(Trim(options[i]))
       THEN LET qCount == KeyCount(questions.multiplechoice) + 1
            IN  /\ questions' =
                     [questions EXCEPT !.multiplechoice =
                          Put(@, qCount + 4,
                              McqRecord(mcqQuestion, options, correctIndex))]
                /\ mcqQuestion' = EmptyStr
                /\ options' = EmptyOptions
                /\ correctIndex' = NoIndex
       ELSE UNCHANGED <<questions, mcqQuestion, options, correctIndex>>
    /\ UNCHANGED <<quizData, isCreatingTest, step, questionType,
                   normalQuestion, testMeta, getExam, posts, alertMsg, edits>>
    /\ UNCHANGED notExam

NoQuestions(qs) ==
    KeyCount(qs.normalQuestions) = 0 /\ KeyCount(qs.multiplechoice) = 0

Proceed ==
    /\ isCreatingTest /\ step = 1
    /\ ~NoQuestions(questions)
    /\ step' = 2
    /\ UNCHANGED <<quizData, isCreatingTest, questionType, questions,
                   normalQuestion, mcqQuestion, options, correctIndex,
                   testMeta, getExam, posts, alertMsg, edits>>
    /\ UNCHANGED notExam

TypeMeta(f, v) ==
    /\ isCreatingTest /\ step = 2
    /\ edits < MaxEdits
    /\ edits' = edits + 1
    /\ testMeta' = [testMeta EXCEPT ![f] = v]
    /\ UNCHANGED <<quizData, isCreatingTest, step, questionType, questions,
                   normalQuestion, mcqQuestion, options, correctIndex,
                   getExam, posts, alertMsg>>
    /\ UNCHANGED notExam

\* fetchExamData, started by the mount effect
FetchExamOk(list) ==
    /\ getExam = "pending"
    /\ getExam' = "ok"
    /\ quizData' = list
    /\ UNCHANGED <<isCreatingTest, step, questionType, questions,
                   normalQuestion, mcqQuestion, options, correctIndex,
                   testMeta, posts, alertMsg, edits>>
    /\ UNCHANGED notExam

FetchExamFail ==
    /\ getExam = "pending"
    /\ getExam' = "failed"
    /\ UNCHANGED <<quizData, isCreatingTest, step, questionType, questions,
                   normalQuestion, mcqQuestion, options, correctIndex,
                   testMeta, posts, alertMsg, edits>>
    /\ UNCHANGED notExam

\* the check with && in place of ||
MetaAllMissing(m) ==
    /\ ~Truthy(m.title)
    /\ ~Truthy(m.class)
    /\ ~Truthy(m.subject)
    /\ ~Truthy(m.duration)

MetaMissing(m) ==
    \/ ~Truthy(m.title)
    \/ ~Truthy(m.class)
    \/ ~Truthy(m.subject)
    \/ ~Truthy(m.duration)

Payload ==
    [title |-> testMeta.title, classname |-> ParseInt(testMeta.class),
     subject |-> testMeta.subject, duration |-> testMeta.duration,
     question |-> questions]

\* handlePostTest up to its await.  The handler checks the draft itself, so
\* it is callable wherever the Post button is rendered, whatever the
\* button's disabled flag.
handlePostTest ==
    /\ isCreatingTest /\ step = 2
    /\ IF MetaMissing(testMeta)
       THEN /\ alertMsg' = "Please fill in all test details."
            /\ UNCHANGED posts
       ELSE IF NoQuestions(questions)
       THEN /\ alertMsg' = "Please add at least one question."
            /\ UNCHANGED posts
       ELSE /\ Len(posts) < MaxPosts
            /\ posts' = Append(posts, [payload |-> Payload,
                                       status |-> "pending", r |-> NULL])
            /\ UNCHANGED alertMsg
    /\ UNCHANGED <<quizData, isCreatingTest, step, questionType, questions,
                   normalQuestion, mcqQuestion, options, correctIndex,
                   testMeta, getExam, edits>>
    /\ UNCHANGED notExam

\* (prev) => [response.data, ...prev]: the new exam put first
PrependQuiz(prev, r) == <<r>> \o prev

\* the updater (prevQuizData) => [...prevQuizData, response.data]
AppendQuiz(prev, r) == prev \o <<r>>

\* the continuation of handlePostTest after the request resolved with r
PostOk(i, r) ==
    /\ i \in 1..Len(posts) /\ posts[i].status = "pending"
    /\ posts' = [posts EXCEPT ![i].status = "ok", ![i].r = r]
    /\ quizData' = AppendQuiz(quizData, r)
    /\ questions' = EmptyQuestions
    /\ testMeta' = DefaultMeta
    /\ step' = 1
    /\ isCreatingTest' = FALSE
    /\ UNCHANGED <<questionType, normalQuestion, mcqQuestion, options,
                   correctIndex, getExam, alertMsg, edits>>
    /\ UNCHANGED notExam

\* a catch block that also closes the form and drops the draft
PostFailReset(i) ==
    /\ i \in 1..Len(posts) /\ posts[i].status = "pending"
    /\ posts' = [posts EXCEPT ![i].status = "failed"]
    /\ alertMsg' = "Failed to post test. Please try again."
    /\ questions' = EmptyQuestions
    /\ testMeta' = DefaultMeta
    /\ step' = 1
    /\ isCreatingTest' = FALSE
    /\ UNCHANGED <<quizData, questionType, normalQuestion, mcqQuestion,
                   options, correctIndex, getExam, edits>>
    /\ UNCHANGED notExam

\* the catch block of handlePostTest
PostFail(i) ==
    /\ i \in 1..Len(posts) /\ posts[i].status = "pending"
    /\ posts' = [posts EXCEPT ![i].status = "failed"]
    /\ alertMsg' = "Failed to post test. Please try again."
    /\ UNCHANGED <<quizData, isCreatingTest, step, questionType, questions,
                   normalQuestion, mcqQuestion, options, correctIndex,
                   testMeta, getExam, edits>>
    /\ UNCHANGED notExam

ExamNext ==
    \/ ClickCreateNewTest
    \/ \E t \in {"normal", "mcq"} : SetQuestionType(t)
    \/ \E v \in NormalTexts : TypeNormalQuestion(v)
    \/ addNormalQuestion
    \/ \E v \in McqTexts : TypeMcqQuestion(v)
    \/ \E idx \in 0..3, v \in OptionTexts : TypeOption(idx, v)
    \/ \E idx \in 0..3 : SelectCorrect(idx)
    \/ addMcqQuestion
    \/ Proceed
    \/ \E f \in MetaFields, v \in MetaTexts : TypeMeta(f, v)
    \/ \E list \in GetExamLists : FetchExamOk(list)
    \/ FetchExamFail
    \/ handlePostTest
    \/ \E i \in 1..MaxPosts, r \in ExamIds : PostOk(i, r)
    \/ \E i \in 1..MaxPosts : PostFail(i)

\* number of normal questions an editing session may start from
MaxAdded == 5

\* questions.normalQuestions after k calls of addNormalQuestion with a
\* non-blank input
RECURSIVE AddedNormal(_)
AddedNormal(k) ==
    IF k = 0 THEN << >>
    ELSE LET prev == AddedNormal(k - 1)
         IN  Put(prev, KeyCount(prev) + 1, Trim(<<" ", "a">>))

\* the Exam screen in the question editor, with k normal questions added
ExamWithQuestions ==
    /\ quizData = << >>
    /\ isCreatingTest = TRUE
    /\ step = 1
    /\ questionType = "normal"
    /\ questions \in { [normalQuestions |-> AddedNormal(k),
                        multiplechoice |-> << >>] : k \in 0..MaxAdded }
    /\ normalQuestion = EmptyStr
    /\ mcqQuestion = EmptyStr
    /\ options = EmptyOptions
    /\ correctIndex = NoIndex
    /\ testMeta = DefaultMeta
    /\ getExam = "pending"
    /\ posts = << >>
    /\ alertMsg = NULL
    /\ edits = 0

\* the handlers of step 1 of the editor
EditorNext ==
    \/ \E t \in {"normal", "mcq"} : SetQuestionType(t)
    \/ \E v \in NormalTexts : TypeNormalQuestion(v)
    \/ addNormalQuestion
    \/ \E v \in McqTexts : TypeMcqQuestion(v)
    \/ \E idx \in 0..3, v \in OptionTexts : TypeOption(idx, v)
    \/ \E idx \in 0..3 : SelectCorrect(idx)
    \/ addMcqQuestion

\* ------------------------------------------------------------------------
\* Student Homework screen
\* ------------------------------------------------------------------------
SecondsPerMinute == 60

\* x * n in JavaScript numbers: NaN stays NaN
Times(x, n) == IF x.nan THEN NaN ELSE Num(x.val * n)

Status(s, st) == [s_id |-> s, status |-> st, duration |-> 1, startedAt |-> "t0"]

Hw(id, dur, st) == [hwId |-> id, duration |-> dur, status |-> st]

\* what user/authentication/protect/validate may answer (user.response)
UserResponses ==
    { << >>,
      <<[s_id |-> "s1", classname |-> "c1"]>>,
      <<[s_id |-> "s1", classname |-> ""]>> }

\* what get/homework may answer
HomeworkLists ==
    { << >>,
      << Hw(1, <<"1">>, << >>),
         Hw(2, <<"x">>, <<Status("s2", "completed")>>) >>,
      << Hw(1, <<"-", "1">>, <<Status("s1", "notcompleted")>>),
         Hw(2, <<"0">>, << >>) >>,
      << Hw(1, <<" ", "1", "m">>, <<Status("s1", "completed")>>),
         Hw(2, << >>, << >>) >>,
      << Hw(1, <<"1">>, << >>),
         Hw(2, <<"+", "1", ".", "5">>, <<Status("s2", "completed"),
                                         Status("s1", "notcompleted")>>) >> }

\* HomeworkItem[] | null
NullList == [isNull |-> TRUE, list |-> << >>]

List(l) == [isNull |-> FALSE, list |-> l]

\* no token in local storage
NoStoredToken == token = NULL

HwUnmounted ==
    /\ hwClassname = NULL
    /\ sId = ""
    /\ homework = NullList
    /\ activeHomework = << >>
    /\ countdowns = << >>
    /\ userInfoReq = "none"
    /\ homeworkReq = "none"
    /\ marks = << >>
    /\ console = NULL
    /\ timerLog = << >>

\* the state after mount: getUserInfo has run up to its await
HwInit ==
    /\ token \in {NULL, "tok"}
    /\ hwClassname = NULL
    /\ sId = ""
    /\ homework = NullList
    /\ activeHomework = << >>
    /\ countdowns = << >>
    /\ userInfoReq = IF token = NULL THEN "none" ELSE "pending"
    /\ homeworkReq = "none"
    /\ marks = << >>
    /\ console = IF token = NULL THEN "No token found. User not authenticated."
                 ELSE NULL
    /\ timerLog = << >>

\* what the screen shows below its heading
HomeworkView(h) ==
    IF ~h.isNull /\ Len(h.list) > 0 THEN "grid"
    ELSE "No homework available."

\* the continuation of getUserInfo; the fetchHomework effect runs on the
\* render that follows setClassname
\* a fetchHomework effect without its test of classname
UserInfoOkUnguarded(resp) ==
    /\ userInfoReq = "pending"
    /\ userInfoReq' = "ok"
    /\ LET s == IF resp # << >> /\ resp[1].s_id # "" THEN resp[1].s_id ELSE ""
           c == IF resp # << >> /\ resp[1].classname # ""
                THEN resp[1].classname ELSE NULL
       IN  /\ sId' = s
           /\ hwClassname' = c
           /\ homeworkReq' = "pending"
    /\ UNCHANGED <<token, homework, activeHomework, countdowns, marks,
                   console, timerLog>>
    /\ UNCHANGED notHomework

UserInfoOk(resp) ==
    /\ userInfoReq = "pending"
    /\ userInfoReq' = "ok"
    /\ LET s == IF resp # << >> /\ resp[1].s_id # "" THEN resp[1].s_id ELSE ""
           c == IF resp # << >> /\ resp[1].classname # ""
                THEN resp[1].classname ELSE NULL
       IN  /\ sId' = s
           /\ hwClassname' = c
           /\ homeworkReq' = IF c # NULL THEN "pending" ELSE homeworkReq
    /\ UNCHANGED <<token, homework, activeHomework, countdowns, marks,
                   console, timerLog>>
    /\ UNCHANGED notHomework

UserInfoFail ==
    /\ userInfoReq = "pending"
    /\ userInfoReq' = "failed"
    /\ console' = "Failed to fetch user info"
    /\ UNCHANGED <<token, hwClassname, sId, homework, activeHomework,
                   countdowns, homeworkReq, marks, timerLog>>
    /\ UNCHANGED notHomework

HomeworkOk(list) ==
    /\ homeworkReq = "pending"
    /\ homeworkReq' = "ok"
    /\ homework' = List(list)
    /\ UNCHANGED <<token, hwClassname, sId, activeHomework, countdowns,
                   userInfoReq, marks, console, timerLog>>
    /\ UNCHANGED notHomework

HomeworkFail ==
    /\ homeworkReq = "pending"
    /\ homeworkReq' = "failed"
    /\ console' = "Failed to fetch homework"
    /\ UNCHANGED <<token, hwClassname, sId, homework, activeHomework,
                   countdowns, userInfoReq, marks, timerLog>>
    /\ UNCHANGED notHomework

\* an interval callback that serves one timer per tick, the first running
TickOneTimer(prev) ==
    [id \in DOMAIN prev |->
        IF prev[id] > 0 /\ \A o \in DOMAIN prev : prev[o] > 0 => id <= o
        THEN prev[id] - 1 ELSE prev[id]]

\* the interval callback that decrements without testing for zero
TickNoFloor(prev) == [id \in DOMAIN prev |-> prev[id] - 1]

\* the updater of the interval callback
TickCountdowns(prev) ==
    [id \in DOMAIN prev |-> IF prev[id] > 0 THEN prev[id] - 1 ELSE prev[id]]

CountTick(log) ==
    [id \in DOMAIN log |->
        [log[id] EXCEPT !.k = IF @ < MaxTicks THEN @ + 1 ELSE @]]

\* an interval callback that also stops the timers that ran out
TickAutoStop ==
    /\ countdowns' = TickCountdowns(countdowns)
    /\ activeHomework' =
         [id \in DOMAIN activeHomework |->
            IF id \in DOMAIN countdowns /\ countdowns'[id] = 0
            THEN FALSE ELSE activeHomework[id]]
    /\ timerLog' = CountTick(timerLog)
    /\ UNCHANGED <<token, hwClassname, sId, homework, userInfoReq,
                   homeworkReq, marks, console>>
    /\ UNCHANGED notHomework

\* one firing of the one-second interval
Tick ==
    /\ countdowns' = TickCountdowns(countdowns)
    /\ timerLog' = CountTick(timerLog)
    /\ UNCHANGED <<token, hwClassname, sId, homework, activeHomework,
                   userInfoReq, homeworkReq, marks, console>>
    /\ UNCHANGED notHomework

\* ---- render ----
\* countdowns[hw.hwId] || 0
SecondsLeft(id) ==
    IF id \in DOMAIN countdowns THEN countdowns[id] ELSE 0

\* activeHomework[hw.hwId], as a condition
IsRunning(id) == id \in DOMAIN activeHomework /\ activeHomework[id]

IsCompleted(hw) ==
    \E j \in DOMAIN hw.status :
        hw.status[j].s_id = sId /\ hw.status[j].status = "completed"

\* the line shown under the estimated duration
TimeBanner(hw) ==
    IF IsRunning(hw.hwId) /\ SecondsLeft(hw.hwId) > 0 THEN "Time Left"
    ELSE IF IsRunning(hw.hwId) /\ SecondsLeft(hw.hwId) <= 0 THEN "Time Over!"
    ELSE "none"

\* a card whose Mark as Read button stays enabled when the time is over
ActionButtonNeverDisabled(hw) ==
    IF IsCompleted(hw) THEN "Completed"
    ELSE IF IsRunning(hw.hwId) THEN "Mark as Read"
    ELSE "Start"

\* the control shown at the bottom of the card
ActionButton(hw) ==
    IF IsCompleted(hw) THEN "Completed"
    ELSE IF IsRunning(hw.hwId)
         THEN (IF SecondsLeft(hw.hwId) <= 0 THEN "Mark as Read (disabled)"
               ELSE "Mark as Read")
         ELSE "Start"

\* card n of the grid (the grid is rendered when homework && homework.length > 0)
Shown(n) == ~homework.isNull /\ n \in DOMAIN homework.list

\* ---- handlers ----
\* the test that lets every parsed value through
StartAbortsNever(seconds) == FALSE

\* isNaN(seconds)
StartAborts(seconds) == IsNaN(seconds)

\* startHomework(hw.hwId, hw.duration), from the Start button of card n
startHomework(n) ==
    /\ Shown(n)
    /\ ActionButton(homework.list[n]) = "Start"
    /\ LET hwId    == homework.list[n].hwId
           seconds == Times(ParseInt(homework.list[n].duration), SecondsPerMinute)
       IN  IF StartAborts(seconds)
           THEN /\ console' = "Invalid duration for hwId"
                /\ UNCHANGED <<activeHomework, countdowns, timerLog>>
           ELSE /\ activeHomework' = Put(activeHomework, hwId, TRUE)
                /\ countdowns' = Put(countdowns, hwId, seconds.val)
                /\ timerLog' = Put(timerLog, hwId, [n |-> seconds.val, k |-> 0])
                /\ UNCHANGED console
    /\ UNCHANGED <<token, hwClassname, sId, homework, userInfoReq,
                   homeworkReq, marks>>
    /\ UNCHANGED notHomework

\* markAsCompleted(hw.hwId, hw.duration) up to its await, from the
\* Mark as Read button of card n
markAsCompleted(n) ==
    /\ Shown(n)
    /\ ActionButton(homework.list[n]) = "Mark as Read"
    /\ LET parsedDuration == ParseInt(homework.list[n].duration)
       IN  IF token = NULL
           THEN /\ console' = "No token found. Cannot mark homework as completed."
                /\ UNCHANGED marks
           ELSE IF IsNaN(parsedDuration)
           THEN /\ console' = "Invalid duration for marking completed"
                /\ UNCHANGED marks
           ELSE /\ Len(marks) < MaxMarks
                /\ marks' = Append(marks,
                      [hwId |-> homework.list[n].hwId, s_id |-> sId,
                       duration |-> parsedDuration.val, status |-> "pending"])
                /\ UNCHANGED console
    /\ UNCHANGED <<token, hwClassname, sId, homework, activeHomework,
                   countdowns, userInfoReq, homeworkReq, timerLog>>
    /\ UNCHANGED notHomework

\* an update that pushes a new entry without looking for an existing one
CompletedStatusPushed(status, s, dur) ==
    Append(status, [s_id |-> s, status |-> "completed",
                    startedAt |-> "now", duration |-> dur])

\* the status list of one item after the student s completed it
CompletedStatus(status, s, dur) ==
    IF \E j \in DOMAIN status : status[j].s_id = s
    THEN LET first == CHOOSE j \in DOMAIN status :
                        /\ status[j].s_id = s
                        /\ \A l \in 1..(j - 1) : status[l].s_id # s
         IN  [status EXCEPT ![first] =
                 [@ EXCEPT !.status = "completed", !.startedAt = "now",
                           !.duration = dur]]
    ELSE Append(status, [s_id |-> s, status |-> "completed",
                         startedAt |-> "now", duration |-> dur])

\* prev?.map(...) || []
CompleteIn(prev, id, s, dur) ==
    IF prev.isNull THEN List(<< >>)
    ELSE List([j \in DOMAIN prev.list |->
                 IF prev.list[j].hwId = id
                 THEN [prev.list[j] EXCEPT
                          !.status = CompletedStatus(@, s, dur)]
                 ELSE prev.list[j]])

\* the continuation of markAsCompleted after the request succeeded
MarkOk(i) ==
    /\ i \in DOMAIN marks /\ marks[i].status = "pending"
    /\ marks' = [marks EXCEPT ![i].status = "ok"]
    /\ homework' = CompleteIn(homework, marks[i].hwId, marks[i].s_id,
                              marks[i].duration)
    /\ activeHomework' = Put(activeHomework, marks[i].hwId, FALSE)
    /\ countdowns' = Put(countdowns, marks[i].hwId, 0)
    /\ timerLog' = [id \in (DOMAIN timerLog) \ {marks[i].hwId} |-> timerLog[id]]
    /\ UNCHANGED <<token, hwClassname, sId, userInfoReq, homeworkReq, console>>
    /\ UNCHANGED notHomework

\* a catch block that also stops the timer of the item
MarkFailStops(i) ==
    /\ i \in DOMAIN marks /\ marks[i].status = "pending"
    /\ marks' = [marks EXCEPT ![i].status = "failed"]
    /\ console' = "Failed to update homework status"
    /\ activeHomework' = Put(activeHomework, marks[i].hwId, FALSE)
    /\ UNCHANGED <<token, hwClassname, sId, homework, countdowns,
                   userInfoReq, homeworkReq, timerLog>>
    /\ UNCHANGED notHomework

\* the catch block of markAsCompleted
MarkFail(i) ==
    /\ i \in DOMAIN marks /\ marks[i].status = "pending"
    /\ marks' = [marks EXCEPT ![i].status = "failed"]
    /\ console' = "Failed to update homework status"
    /\ UNCHANGED <<token, hwClassname, sId, homework, activeHomework,
                   countdowns, userInfoReq, homeworkReq, timerLog>>
    /\ UNCHANGED notHomework

\* local storage belongs to the origin, not to the screen: the token may
\* be removed while the screen is mounted, and markAsCompleted reads it
\* again on every call
TokenRemoved ==
    /\ token # NULL
    /\ token' = NULL
    /\ UNCHANGED <<hwClassname, sId, homework, activeHomework, countdowns,
                   userInfoReq, homeworkReq, marks, console, timerLog>>
    /\ UNCHANGED notHomework

MaxCards == 2

HwNext ==
    \/ \E resp \in UserResponses : UserInfoOk(resp)
    \/ UserInfoFail
    \/ \E list \in HomeworkLists : HomeworkOk(list)
    \/ HomeworkFail
    \/ Tick
    \/ \E n \in 1..MaxCards : startHomework(n)
    \/ \E n \in 1..MaxCards : markAsCompleted(n)
    \/ \E i \in 1..MaxMarks : MarkOk(i)
    \/ \E i \in 1..MaxMarks : MarkFail(i)
    \/ TokenRemoved

\* ------------------------------------------------------------------------
\* FlashCards screen
\* ------------------------------------------------------------------------
\* A JSON object is a function from the keys it carries to their values; a
\* value is tagged with its typeof.
Str(v) == [type |-> "string", v |-> v]

\* a JSON number, kept as its text
JsonNumber(v) == [type |-> "number", v |-> v]

Has(o, k) == k \in DOMAIN o

\* the extra fields a details record may carry besides subject and time
\* ([key: string]: any)
DetailsExtras ==
    { << >>,
      [k \in {"question"} |-> Str("q0")],
      [k \in {"question", "answer"} |-> Str("x0")],
      [k \in {"question", "answer"} |->
          IF k = "question" THEN JsonNumber("7") ELSE Str("x0")] }

\* o1 and o2 merged, for objects with disjoint keys
Merge(o1, o2) ==
    [k \in (DOMAIN o1) \cup (DOMAIN o2) |->
        IF k \in DOMAIN o1 THEN o1[k] ELSE o2[k]]

DetailsRecords ==
    { Merge([k \in {"subject", "time"} |->
                IF k = "subject" THEN Str("Maths") ELSE Str("5 min")], e) :
        e \in DetailsExtras }

QA(n) == [k \in {"question", "answer"} |-> Str(<<k, n>>)]

\* the question/answer pairs of a deck, up to MaxPairs of them
MaxPairs == 2

PairLists == { [j \in 1..n |-> QA(j)] : n \in 0..MaxPairs }

\* a deck: one leading details record, then the question/answer pairs
Deck(id, title, details, pairs) ==
    [_id |-> id, title |-> title, subject |-> "Sub", progress |-> 0,
     content |-> <<details>> \o pairs]

\* decks that lack optional fields: no content, an empty content, no
\* title, no subject, no progress
SparseDecks ==
    { [_id |-> "d2"],
      [_id |-> "d2", title |-> "Title", subject |-> "Sub"],
      [_id |-> "d2", content |-> << >>],
      [_id |-> "d2", subject |-> "Sub", progress |-> 40, content |-> << >>] }

Decks ==
    { Deck("d1", t, d, ps) : t \in {"", "Title"}, d \in DetailsRecords,
                             ps \in PairLists }
    \cup SparseDecks

\* what get/flashcard may answer
MaxDecks == 2

DeckLists == UNION { [1..n -> Decks] : n \in 0..MaxDecks }

\* SelectedDeck | null
NoDeck == [isNull |-> TRUE, title |-> "", cards |-> << >>]

FlashUnmounted ==
    /\ flash_id = NULL
    /\ flashcard = << >>
    /\ getFlash = "none"
    /\ selectedDeck = NoDeck
    /\ selectedSubject = ""
    /\ showModal = FALSE
    /\ youtubeUrl = EmptyStr
    /\ flashLoading = FALSE
    /\ gens = << >>
    /\ flashAlert = NULL
    /\ getFlashId = NULL
    /\ deckSource = NULL

\* the state after mount: fetchFlashcardDecks has run up to its await
FlashInit ==
    /\ flash_id \in {NULL, "f1"}
    /\ flashcard = << >>
    /\ getFlash = IF flash_id = NULL THEN "none" ELSE "pending"
    /\ selectedDeck = NoDeck
    /\ selectedSubject = ""
    /\ showModal = FALSE
    /\ youtubeUrl = EmptyStr
    /\ flashLoading = FALSE
    /\ gens = << >>
    /\ flashAlert = NULL
    /\ getFlashId = flash_id
    /\ deckSource = NULL

FetchDecksOk(list) ==
    /\ getFlash = "pending"
    /\ getFlash' = "ok"
    /\ flashcard' = list
    /\ deckSource' = getFlashId
    /\ UNCHANGED <<flash_id, selectedDeck, selectedSubject, genVars,
                   getFlashId>>
    /\ UNCHANGED notFlash

FetchDecksFail ==
    /\ getFlash = "pending"
    /\ getFlash' = "failed"
    /\ flashcard' = << >>
    /\ deckSource' = NULL
    /\ UNCHANGED <<flash_id, selectedDeck, selectedSubject, genVars,
                   getFlashId>>
    /\ UNCHANGED notFlash

\* "question" in item && "answer" in item
LooksLikeCard(item) == Has(item, "question") /\ Has(item, "answer")

\* card.content || []
ContentOrEmpty(card) == IF Has(card, "content") THEN card.content ELSE << >>

\* card[k] of a string field, undefined read as ""
Field(card, k) == IF Has(card, k) THEN card[k] ELSE ""

\* the cardsCount prop of a deck tile
CardsCount(card) == Len(SelectSeq(ContentOrEmpty(card), LooksLikeCard))

\* card.content[0] throws a TypeError when card.content is undefined
DetailsThrows(card) == ~Has(card, "content")

\* details?.[k] for details = card.content[0], undefined read as ""
DetailsField(card, k) ==
    IF Len(card.content) > 0 /\ Has(card.content[1], k)
    THEN card.content[1][k].v ELSE ""

\* the filter of the deck's onClick
IsQaCard(item) ==
    /\ Has(item, "question") /\ item["question"].type = "string"
    /\ Has(item, "answer") /\ item["answer"].type = "string"

\* card.title || details.subject || card.subject || "Untitled Deck"
DeckTitle(card) ==
    IF Field(card, "title") # "" THEN card.title
    ELSE IF DetailsField(card, "subject") # ""
         THEN DetailsField(card, "subject")
    ELSE IF Field(card, "subject") # "" THEN card.subject
    ELSE "Untitled Deck"

\* the props of the tile of one deck, or the throw of its map callback
DeckTile(card) ==
    IF DetailsThrows(card) THEN [threw |-> TRUE]
    ELSE [threw |-> FALSE,
          title |-> DeckTitle(card),
          cardsCount |-> CardsCount(card),
          timeTaken |-> IF DetailsField(card, "time") # ""
                        THEN DetailsField(card, "time") ELSE "N/A",
          progress |-> IF Has(card, "progress") THEN card.progress ELSE 0]

\* the deck list has rendered: no map callback threw
DeckListRenders == \A m \in DOMAIN flashcard : ~DeckTile(flashcard[m]).threw

\* the onClick of deck tile n
OpenDeck(n) ==
    /\ selectedDeck.isNull
    /\ n \in DOMAIN flashcard
    /\ DeckListRenders
    /\ selectedDeck' = [isNull |-> FALSE,
                        title |-> DeckTitle(flashcard[n]),
                        cards |-> SelectSeq(ContentOrEmpty(flashcard[n]),
                                            IsQaCard)]
    /\ selectedSubject' = Field(flashcard[n], "subject")
    /\ UNCHANGED <<flash_id, flashcard, getFlash, genVars, getFlashId,
                   deckSource>>
    /\ UNCHANGED notFlash

BackToDecks ==
    /\ ~selectedDeck.isNull
    /\ selectedDeck' = NoDeck
    /\ UNCHANGED <<flash_id, flashcard, getFlash, selectedSubject, genVars,
                   getFlashId, deckSource>>
    /\ UNCHANGED notFlash

FlashNext ==
    \/ \E list \in DeckLists : FetchDecksOk(list)
    \/ FetchDecksFail
    \/ \E n \in 1..MaxDecks : OpenDeck(n)
    \/ BackToDecks

\* ---- the Create New Deck modal ----
\* number of Generate flows started in one session
MaxGens == 2

\* the flash_id used when generate/flashcard answers without one
DefaultFlashId == "766faffd-4706-4c82-ac86-0b667117a2d7"

\* what generate/flashcard may answer as response.data.flash_id
\* ("" for a missing one)
PostedFlashIds == {"", "f2", "f3"}

\* what the link input may hold
YoutubeUrls == {EmptyStr, <<"u">>}

\* what get/flashcard answers while Generate flows are followed
GeneratedDeckLists ==
    {<< >>} \cup { <<d>> : d \in SparseDecks }

\* the deck list and the Create new deck card are on the screen
DeckListShown == selectedDeck.isNull /\ DeckListRenders

\* the onClick of the Create new deck card
OpenModal ==
    /\ DeckListShown
    /\ ~showModal
    /\ showModal' = TRUE
    /\ UNCHANGED <<youtubeUrl, flashLoading, gens, flashAlert>>
    /\ UNCHANGED <<flash_id, flashcard, getFlash, selectedDeck,
                   selectedSubject, getFlashId, deckSource>>
    /\ UNCHANGED notFlash

\* the onClick of the x button of the modal
CloseModal ==
    /\ DeckListShown
    /\ showModal
    /\ showModal' = FALSE
    /\ UNCHANGED <<youtubeUrl, flashLoading, gens, flashAlert>>
    /\ UNCHANGED <<flash_id, flashcard, getFlash, selectedDeck,
                   selectedSubject, getFlashId, deckSource>>
    /\ UNCHANGED notFlash

\* the onChange of the link input
TypeYoutubeUrl(v) ==
    /\ DeckListShown
    /\ showModal
    /\ youtubeUrl # v
    /\ youtubeUrl' = v
    /\ UNCHANGED <<showModal, flashLoading, gens, flashAlert>>
    /\ UNCHANGED <<flash_id, flashcard, getFlash, selectedDeck,
                   selectedSubject, getFlashId, deckSource>>
    /\ UNCHANGED notFlash

\* the onClick of the Generate button, up to its first await
Generate ==
    /\ DeckListShown
    /\ showModal
    /\ ~flashLoading
    /\ IF ~Truthy(youtubeUrl)
       THEN /\ flashAlert' = "Please paste a YouTube link first."
            /\ UNCHANGED <<flashLoading, gens>>
       ELSE /\ Len(gens) < MaxGens
            /\ flashLoading' = TRUE
            /\ gens' = Append(gens, [videoUrl |-> youtubeUrl,
                                     status |-> "posting",
                                     newFlashId |-> NULL,
                                     storedBefore |-> flash_id])
            /\ UNCHANGED flashAlert
    /\ UNCHANGED <<showModal, youtubeUrl>>
    /\ UNCHANGED <<flash_id, flashcard, getFlash, selectedDeck,
                   selectedSubject, getFlashId, deckSource>>
    /\ UNCHANGED notFlash

\* the Generate handler between its two awaits: generate/flashcard has
\* answered, the flash_id is stored and get/flashcard is issued
GeneratePosted(i, id) ==
    /\ i \in DOMAIN gens
    /\ gens[i].status = "posting"
    /\ LET newFlashId == IF id # "" THEN id ELSE DefaultFlashId
       IN  /\ gens' = [gens EXCEPT ![i].status = "reading",
                                      ![i].newFlashId = newFlashId]
           /\ flash_id' = newFlashId
    /\ flashLoading' = FALSE
    /\ UNCHANGED <<showModal, youtubeUrl, flashAlert>>
    /\ UNCHANGED <<flashcard, getFlash, selectedDeck, selectedSubject,
                   getFlashId, deckSource>>
    /\ UNCHANGED notFlash

\* the Generate handler after its second await
GenerateRead(i, list) ==
    /\ i \in DOMAIN gens
    /\ gens[i].status = "reading"
    /\ gens' = [gens EXCEPT ![i].status = "done"]
    /\ flashcard' = list
    /\ deckSource' = gens[i].newFlashId
    /\ youtubeUrl' = EmptyStr
    /\ showModal' = FALSE
    /\ flashLoading' = FALSE
    /\ UNCHANGED flashAlert
    /\ UNCHANGED <<flash_id, getFlash, selectedDeck, selectedSubject,
                   getFlashId>>
    /\ UNCHANGED notFlash

\* the catch and the finally of the Generate handler, for a failure of
\* either request
GenerateFail(i) ==
    /\ i \in DOMAIN gens
    /\ gens[i].status \in {"posting", "reading"}
    /\ gens' = [gens EXCEPT ![i].status =
                   IF @ = "posting" THEN "post failed" ELSE "read failed"]
    /\ flashAlert' = "Failed to generate flashcards. Please try again."
    /\ flashLoading' = FALSE
    /\ UNCHANGED <<showModal, youtubeUrl>>
    /\ UNCHANGED <<flash_id, flashcard, getFlash, selectedDeck,
                   selectedSubject, getFlashId, deckSource>>
    /\ UNCHANGED notFlash

GenerateNext ==
    \/ \E list \in GeneratedDeckLists : FetchDecksOk(list)
    \/ FetchDecksFail
    \/ \E n \in 1..MaxDecks : OpenDeck(n)
    \/ BackToDecks
    \/ OpenModal
    \/ CloseModal
    \/ \E v \in YoutubeUrls : TypeYoutubeUrl(v)
    \/ Generate
    \/ \E i \in 1..MaxGens : \E id \in PostedFlashIds : GeneratePosted(i, id)
    \/ \E i \in 1..MaxGens :
          \E list \in GeneratedDeckLists : GenerateRead(i, list)
    \/ \E i \in 1..MaxGens : GenerateFail(i)

\* ------------------------------------------------------------------------
\* CreateMeeting screen
\* ------------------------------------------------------------------------
\* number of onChange events of the meeting form in one session
MaxMeetEdits == 6
\* number of create/meet requests issued in one session
MaxCreates == 1

\* A date string "YYYY-MM-DD" is the number of its day, a time string
\* "HH:MM" the number of its minute in the day, and an ISO-8601 string
\* "YYYY-MM-DDTHH:MM:00.000Z" the number of its minute in UTC; the empty
\* string is Blank in all three.
Blank == -1

MinutesPerDay == 1440

\* what the date and the time pickers can deliver
DateValues == {Blank, 20000, 20001}

TimeValues == {Blank, 30}

\* the timezones the browser may run in (minutes east of UTC)
TzOffsets == {0, 330, -300}

\* new Date(`${date}T${time}:00`).toISOString(): the string is read as
\* local time and written as UTC
ToISOString(date, time) == date * MinutesPerDay + time - tzOffset

\* start_time.split("T")[0]
IsoDatePart(iso) == iso \div MinutesPerDay

\* start_time.split("T")[1]?.slice(0, 5)
IsoTimePart(iso) == iso % MinutesPerDay

MeetingDefault ==
    [topic |-> EmptyStr, type |-> 2, start_time |-> Blank, duration |-> 30,
     timezone |-> "Asia/Kolkata", password |-> EmptyStr,
     settings |-> [join_before_host |-> FALSE, waiting_room |-> TRUE]]

\* what get/meetdata may answer (res.data)
MeetingData == {NullList, List(<< >>), List(<<"m1">>)}

\* the onChange events of the inputs bound to handleChange
ChangeEvents ==
    { [name |-> "topic", type |-> "text", value |-> <<"T">>,
       checked |-> FALSE],
      [name |-> "type", type |-> "select-one", value |-> <<"1">>,
       checked |-> FALSE],
      [name |-> "join_before_host", type |-> "checkbox", value |-> <<"o", "n">>,
       checked |-> TRUE] }

ClassNames == { <<" ">>, <<"c">> }

MeetUnmounted ==
    /\ meeting = MeetingDefault
    /\ selectedDate = Blank
    /\ selectedTime = Blank
    /\ className = EmptyStr
    /\ showForm = FALSE
    /\ meetings = << >>
    /\ startUrl = ""
    /\ meetFetches = << >>
    /\ creates = << >>
    /\ meetAlert = NULL
    /\ meetEdits = 0
    /\ tzOffset = 0
    /\ enteredDate = Blank
    /\ enteredTime = Blank

\* the state after mount: fetchMeetings has run up to its await, and the
\* start_time effect has run on the default draft
MeetInit ==
    /\ meeting = MeetingDefault
    /\ selectedDate = Blank
    /\ selectedTime = Blank
    /\ className = EmptyStr
    /\ showForm = FALSE
    /\ meetings = << >>
    /\ startUrl = ""
    /\ meetFetches = <<"pending">>
    /\ creates = << >>
    /\ meetAlert = NULL
    /\ meetEdits = 0
    /\ tzOffset \in TzOffsets
    /\ enteredDate = Blank
    /\ enteredTime = Blank

\* the continuation of the i-th fetchMeetings call
FetchMeetingsOk(i, data) ==
    /\ i \in DOMAIN meetFetches
    /\ meetFetches[i] = "pending"
    /\ meetFetches' = [meetFetches EXCEPT ![i] = "ok"]
    /\ meetings' = IF data.isNull THEN << >> ELSE data.list
    /\ UNCHANGED <<meeting, selectedDate, selectedTime, className, showForm,
                   startUrl, creates, meetAlert, meetEdits, tzOffset,
                   enteredDate, enteredTime>>
    /\ UNCHANGED notMeeting

\* the catch of fetchMeetings only logs
FetchMeetingsFail(i) ==
    /\ i \in DOMAIN meetFetches
    /\ meetFetches[i] = "pending"
    /\ meetFetches' = [meetFetches EXCEPT ![i] = "failed"]
    /\ UNCHANGED <<meeting, selectedDate, selectedTime, className, showForm,
                   meetings, startUrl, creates, meetAlert, meetEdits,
                   tzOffset, enteredDate, enteredTime>>
    /\ UNCHANGED notMeeting

ToggleForm ==
    /\ showForm' = ~showForm
    /\ UNCHANGED <<meeting, selectedDate, selectedTime, className, meetings,
                   startUrl, meetFetches, creates, meetAlert, meetEdits,
                   tzOffset, enteredDate, enteredTime>>
    /\ UNCHANGED notMeeting

\* Number(value) of a select or number input
NumberOf(value) == IF value = EmptyStr THEN 0 ELSE DigitsValue(value)

handleChange(e) ==
    /\ showForm
    /\ meetEdits < MaxMeetEdits
    /\ IF e.type = "checkbox" THEN meeting.settings[e.name] # e.checked
       ELSE IF e.name \in {"type", "duration"}
       THEN meeting[e.name] # NumberOf(e.value)
       ELSE meeting[e.name] # e.value
    /\ meetEdits' = meetEdits + 1
    /\ meeting' =
         IF e.type = "checkbox"
         THEN [meeting EXCEPT !.settings[e.name] = e.checked]
         ELSE IF e.name \in {"type", "duration"}
         THEN [meeting EXCEPT ![e.name] = NumberOf(e.value)]
         ELSE [meeting EXCEPT ![e.name] = e.value]
    /\ UNCHANGED <<selectedDate, selectedTime, className, showForm, meetings,
                   startUrl, meetFetches, creates, meetAlert, tzOffset,
                   enteredDate, enteredTime>>
    /\ UNCHANGED notMeeting

TypeClassName(v) ==
    /\ showForm
    /\ meetEdits < MaxMeetEdits
    /\ className # v
    /\ meetEdits' = meetEdits + 1
    /\ className' = v
    /\ UNCHANGED <<meeting, selectedDate, selectedTime, showForm, meetings,
                   startUrl, meetFetches, creates, meetAlert, tzOffset,
                   enteredDate, enteredTime>>
    /\ UNCHANGED notMeeting

\* the date and time inputs after the start_time effect: the effect runs
\* on the render that follows a change of meeting.start_time
AfterStartTimeEffect(old, new, date, time) ==
    IF new = old THEN <<date, time>>
    ELSE IF new # Blank THEN <<IsoDatePart(new), IsoTimePart(new)>>
    ELSE <<Blank, Blank>>

\* the onChange of the date input (name = "date") and of the time input
\* (name = "time"), with the start_time effect that follows it
handleDateTimeChange(name, value) ==
    /\ showForm
    /\ meetEdits < MaxMeetEdits
    /\ value # (IF name = "date" THEN selectedDate ELSE selectedTime)
    /\ meetEdits' = meetEdits + 1
    /\ LET currentSelectedDate == IF name = "date" THEN value
                                  ELSE selectedDate
           currentSelectedTime == IF name = "time" THEN value
                                  ELSE selectedTime
           start == IF currentSelectedDate # Blank
                       /\ currentSelectedTime # Blank
                    THEN ToISOString(currentSelectedDate, currentSelectedTime)
                    ELSE Blank
           shown == AfterStartTimeEffect(meeting.start_time, start,
                                         currentSelectedDate,
                                         currentSelectedTime)
       IN  /\ meeting' = [meeting EXCEPT !.start_time = start]
           /\ selectedDate' = shown[1]
           /\ selectedTime' = shown[2]
    /\ enteredDate' = IF name = "date" THEN value ELSE enteredDate
    /\ enteredTime' = IF name = "time" THEN value ELSE enteredTime
    /\ UNCHANGED <<className, showForm, meetings, startUrl, meetFetches,
                   creates, meetAlert, tzOffset>>
    /\ UNCHANGED notMeeting

\* the required inputs of the form hold a value
RequiredFilled ==
    /\ Truthy(meeting.topic)
    /\ selectedDate # Blank
    /\ selectedTime # Blank
    /\ Truthy(className)

SubmitRejectsUntrimmed(cn) == ~Truthy(cn)

\* !className.trim()
SubmitRejects(cn) == ~Truthy(Trim(cn))

\* handleSubmit up to its await
handleSubmit ==
    /\ showForm
    /\ RequiredFilled
    /\ IF SubmitRejects(className)
       THEN /\ meetAlert' = "Class name is required."
            /\ UNCHANGED creates
       ELSE /\ Len(creates) < MaxCreates
            /\ creates' = Append(creates,
                                 [classname |-> Trim(className),
                                  meetingData |-> meeting,
                                  status |-> "pending"])
            /\ UNCHANGED meetAlert
    /\ UNCHANGED <<meeting, selectedDate, selectedTime, className, showForm,
                   meetings, startUrl, meetFetches, meetEdits, tzOffset,
                   enteredDate, enteredTime>>
    /\ UNCHANGED notMeeting

\* what create/meet may answer (res.data)
CreateResponses == [success : BOOLEAN, start_url : {"", "u1"}]

\* the continuation of handleSubmit after a response
CreateOk(i, data) ==
    /\ i \in DOMAIN creates
    /\ creates[i].status = "pending"
    /\ IF data.success
       THEN LET shown == AfterStartTimeEffect(meeting.start_time,
                                              MeetingDefault.start_time,
                                              selectedDate, selectedTime)
            IN  /\ creates' = [creates EXCEPT ![i].status = "created"]
                /\ meetAlert' = "Meeting created successfully!"
                /\ startUrl' = data.start_url
                /\ meeting' = MeetingDefault
                /\ className' = EmptyStr
                /\ selectedDate' = shown[1]
                /\ selectedTime' = shown[2]
                /\ meetFetches' = Append(meetFetches, "pending")
                /\ enteredDate' = Blank
                /\ enteredTime' = Blank
       ELSE /\ creates' = [creates EXCEPT ![i].status = "refused"]
            /\ meetAlert' = "Meeting creation failed."
            /\ UNCHANGED <<startUrl, meeting, className, selectedDate,
                           selectedTime, meetFetches, enteredDate,
                           enteredTime>>
    /\ UNCHANGED <<showForm, meetings, meetEdits, tzOffset>>
    /\ UNCHANGED notMeeting

\* the catch of handleSubmit
CreateFail(i) ==
    /\ i \in DOMAIN creates
    /\ creates[i].status = "pending"
    /\ creates' = [creates EXCEPT ![i].status = "failed"]
    /\ meetAlert' = "Something went wrong"
    /\ UNCHANGED <<meeting, selectedDate, selectedTime, className, showForm,
                   meetings, startUrl, meetFetches, meetEdits, tzOffset,
                   enteredDate, enteredTime>>
    /\ UNCHANGED notMeeting

MeetNext ==
    \/ \E i \in 1..(MaxCreates + 1) :
          \E data \in MeetingData : FetchMeetingsOk(i, data)
    \/ \E i \in 1..(MaxCreates + 1) : FetchMeetingsFail(i)
    \/ ToggleForm
    \/ \E e \in ChangeEvents : handleChange(e)
    \/ \E v \in ClassNames : TypeClassName(v)
    \/ \E name \in {"date", "time"} :
          \E value \in (IF name = "date" THEN DateValues ELSE TimeValues) :
             handleDateTimeChange(name, value)
    \/ handleSubmit
    \/ \E i \in 1..MaxCreates : \E data \in CreateResponses : CreateOk(i, data)
    \/ \E i \in 1..MaxCreates : CreateFail(i)

\* ------------------------------------------------------------------------
\* Student ExamAndTests screen
\* ------------------------------------------------------------------------
\* number of exams in one answer of get/exam
MaxExams == 2
\* number of get/exam requests followed in one session
MaxExamReqs == 2

\* the optional question object of an exam: the keys of normalQuestions and
\* of multiplechoice, each of which may be missing
ExamQuestions ==
    { << >>,
      [k \in {"normalQuestions"} |-> {"question1"}],
      [k \in {"multiplechoice"} |-> {"question5"}],
      [k \in {"normalQuestions", "multiplechoice"} |->
          IF k = "normalQuestions" THEN {"question1", "question2"}
          ELSE {"question5"}] }

ExamItems ==
    { [examId |-> "e1", created_at |-> c] : c \in {"", "2025-01-01"} }
    \cup
    { [examId |-> "e1", created_at |-> c, question |-> q] :
        c \in {"", "2025-01-01"}, q \in ExamQuestions }

\* what get/exam may answer
ExamLists == UNION { [1..n -> ExamItems] : n \in 0..MaxExams }

\* Object.keys(exam.question?.[kind] || {}).length
KeysOf(exam, kind) ==
    IF Has(exam, "question") /\ Has(exam.question, kind)
    THEN Cardinality(exam.question[kind]) ELSE 0

TotalQuestions(exam) ==
    KeysOf(exam, "normalQuestions") + KeysOf(exam, "multiplechoice")

\* what the screen shows
EtView ==
    IF loading THEN "Loading exams..."
    ELSE IF error # NULL THEN "Error"
    ELSE IF Len(exams) = 0 THEN "No exams available for your class yet."
    ELSE "exams"

EtUnmounted ==
    /\ exams = << >>
    /\ classname = NULL
    /\ loading = TRUE
    /\ error = NULL
    /\ validateReq = "none"
    /\ examReqs = << >>
    /\ examsEffect = "idle"

TokenMissingNever(t) == FALSE

\* !token
TokenMissing(t) == t = NULL

\* the state after mount: validateToken has run up to its await or its
\* early return, and the fetchExams effect has returned on the null
\* classname with the loading of the first render
EtInit ==
    /\ token \in {NULL, "tok"}
    /\ exams = << >>
    /\ classname = NULL
    /\ loading = ~TokenMissing(token)
    /\ error = IF TokenMissing(token) THEN "No token found. Please login."
               ELSE NULL
    /\ validateReq = IF TokenMissing(token) THEN "none" ELSE "pending"
    /\ examReqs = << >>
    /\ examsEffect = "idle"

\* res.data?.user?.response?.[0]?.classname
ClassnameOf(resp) == IF Len(resp) > 0 THEN resp[1].classname ELSE ""

\* the continuation of validateToken after a response; setClassname makes
\* the fetchExams effect due on the render that follows
ValidateOk(resp) ==
    /\ validateReq = "pending"
    /\ validateReq' = "ok"
    /\ LET cls == ClassnameOf(resp)
       IN  IF cls = ""
           THEN /\ error' = "User validation failed: Classname not found in validation response."
                /\ UNCHANGED <<classname, examsEffect>>
           ELSE /\ classname' = cls
                /\ examsEffect' = "due"
                /\ UNCHANGED error
    /\ loading' = FALSE
    /\ UNCHANGED <<exams, examReqs>>
    /\ UNCHANGED notExamAndTests

\* the catch of validateToken on a failed request
ValidateFail ==
    /\ validateReq = "pending"
    /\ validateReq' = "failed"
    /\ error' = "User validation failed: Network Error"
    /\ loading' = FALSE
    /\ UNCHANGED <<exams, classname, examReqs, examsEffect>>
    /\ UNCHANGED notExamAndTests

\* the effect on [classname], run after the render that shows the new
\* classname: fetchExams up to its await
fetchExams ==
    /\ examsEffect = "due"
    /\ examsEffect' = "idle"
    /\ IF classname = NULL \/ classname = ""
       THEN /\ error' = IF ~loading /\ error = NULL
                        THEN "Class information not available to fetch exams."
                        ELSE error
            /\ UNCHANGED <<loading, examReqs>>
       ELSE /\ loading' = TRUE
            /\ error' = NULL
            /\ examReqs' = Append(examReqs, [classname |-> classname,
                                             status |-> "pending"])
    /\ UNCHANGED <<exams, classname, validateReq>>
    /\ UNCHANGED notExamAndTests

\* the continuation of fetchExams after a response
FetchExamsOk(i, list) ==
    /\ i \in DOMAIN examReqs
    /\ examReqs[i].status = "pending"
    /\ examReqs' = [examReqs EXCEPT ![i].status = "ok"]
    /\ exams' = list
    /\ loading' = FALSE
    /\ UNCHANGED <<classname, error, validateReq, examsEffect>>
    /\ UNCHANGED notExamAndTests

FetchExamsFailLeavesLoading(i) ==
    /\ i \in DOMAIN examReqs
    /\ examReqs[i].status = "pending"
    /\ examReqs' = [examReqs EXCEPT ![i].status = "failed"]
    /\ error' = "Failed to fetch exams: Network Error"
    /\ UNCHANGED <<loading, exams, classname, validateReq, examsEffect>>
    /\ UNCHANGED notExamAndTests

\* the catch and the finally of fetchExams on a failed request
FetchExamsFail(i) ==
    /\ i \in DOMAIN examReqs
    /\ examReqs[i].status = "pending"
    /\ examReqs' = [examReqs EXCEPT ![i].status = "failed"]
    /\ error' = "Failed to fetch exams: Network Error"
    /\ loading' = FALSE
    /\ UNCHANGED <<exams, classname, validateReq, examsEffect>>
    /\ UNCHANGED notExamAndTests

EtNext ==
    \/ \E resp \in UserResponses : ValidateOk(resp)
    \/ ValidateFail
    \/ fetchExams
    \/ \E i \in 1..MaxExamReqs : \E list \in ExamLists : FetchExamsOk(i, list)
    \/ \E i \in 1..MaxExamReqs : FetchExamsFail(i)

\* ------------------------------------------------------------------------
\* Specifications: one screen is mounted, the others are not
\* ------------------------------------------------------------------------
InitExamScreen ==
    /\ ExamInit /\ NoStoredToken /\ HwUnmounted /\ FlashUnmounted
    /\ MeetUnmounted /\ EtUnmounted

SpecExam == InitExamScreen /\ [][ExamNext]_vars

\* the question editor of the Exam screen, entered with a set of normal
\* questions that earlier addNormalQuestion calls have built
InitExamEditor ==
    /\ ExamWithQuestions /\ NoStoredToken /\ HwUnmounted /\ FlashUnmounted
    /\ MeetUnmounted /\ EtUnmounted

SpecExamEditor == InitExamEditor /\ [][EditorNext]_vars

InitHomeworkScreen ==
    /\ HwInit /\ ExamUnmounted /\ FlashUnmounted /\ MeetUnmounted
    /\ EtUnmounted

InitFlashScreen ==
    /\ FlashInit /\ ExamUnmounted /\ NoStoredToken /\ HwUnmounted
    /\ MeetUnmounted /\ EtUnmounted

SpecHomework == InitHomeworkScreen /\ [][HwNext]_vars

SpecFlash == InitFlashScreen /\ [][FlashNext]_vars

\* the FlashCards screen followed through its Generate flows
SpecFlashGenerate == InitFlashScreen /\ [][GenerateNext]_vars

InitMeetingScreen ==
    /\ MeetInit /\ ExamUnmounted /\ NoStoredToken /\ HwUnmounted
    /\ FlashUnmounted /\ EtUnmounted

SpecMeeting == InitMeetingScreen /\ [][MeetNext]_vars

InitExamAndTestsScreen ==
    /\ EtInit /\ ExamUnmounted /\ HwUnmounted /\ FlashUnmounted
    /\ MeetUnmounted

SpecExamAndTests == InitExamAndTestsScreen /\ [][EtNext]_vars

\* the student dashboard with the Homework and the ExamAndTests widgets
\* mounted, followed through their requests
InitStudentReads ==
    /\ HwInit /\ EtInit /\ ExamUnmounted /\ FlashUnmounted /\ MeetUnmounted

ReadsNext ==
    \/ \E resp \in UserResponses : UserInfoOk(resp)
    \/ UserInfoFail
    \/ \E list \in HomeworkLists : HomeworkOk(list)
    \/ HomeworkFail
    \/ \E resp \in UserResponses : ValidateOk(resp)
    \/ ValidateFail
    \/ fetchExams
    \/ \E i \in 1..MaxExamReqs : \E list \in ExamLists : FetchExamsOk(i, list)
    \/ \E i \in 1..MaxExamReqs : FetchExamsFail(i)

SpecStudentReads == InitStudentReads /\ [][ReadsNext]_vars

\* ------------------------------------------------------------------------
\* Properties of the teacher Exam screen
\* ------------------------------------------------------------------------
\* a step in which the request numbered i goes from pending to st
Settles(i, st) ==
    /\ i \in DOMAIN posts /\ i \in DOMAIN posts'
    /\ posts[i].status = "pending"
    /\ posts'[i].status = st

DraftInvalid ==
    \/ testMeta.title = EmptyStr
    \/ testMeta.class = EmptyStr
    \/ testMeta.subject = EmptyStr
    \/ testMeta.duration = EmptyStr
    \/ (DOMAIN questions.normalQuestions = {}
         /\ DOMAIN questions.multiplechoice = {})

\* C1: handlePostTest invoked while a required detail is empty, or while the
\* question set holds no question at all, issues no create/exam/post request
\* and leaves quizData, questions, testMeta, step and isCreatingTest as
\* they were.
C1_InvalidDraftNotPosted ==
    [][ DraftInvalid =>
          /\ Len(posts') = Len(posts)
          /\ (handlePostTest =>
                 UNCHANGED <<quizData, questions, testMeta, step,
                             isCreatingTest, posts>>) ]_vars

\* the handler has refused a draft that has questions but lacks a detail
C1_Witness ==
    /\ alertMsg = "Please fill in all test details."
    /\ DOMAIN questions.normalQuestions # {}
    /\ testMeta.title # EmptyStr
    /\ testMeta.duration = EmptyStr
    /\ posts = << >>

\* C2: when a create/exam/post request succeeds with response r, quizData
\* becomes the previous quizData followed by r: the exams listed before are
\* all still there, once each and in the same order, and r is last.
C2_ResponseAppended ==
    [][ \A i \in DOMAIN posts :
          Settles(i, "ok") =>
            /\ Len(quizData') = Len(quizData) + 1
            /\ SubSeq(quizData', 1, Len(quizData)) = quizData
            /\ quizData'[Len(quizData')] = posts'[i].r ]_vars

\* a response was appended to a list that already showed an exam
C2_Witness ==
    /\ \E i \in DOMAIN posts : posts[i].status = "ok"
    /\ Len(quizData) >= 2
    /\ quizData[1] # quizData[2]

\* the exams of the visible list
ListedExams == { quizData[k] : k \in DOMAIN quizData }

\* C30: an exam appended to quizData by a successful handlePostTest is in
\* the visible list for the rest of the screen's life, also when the
\* response of the mount-time get/exam read arrives after the response of
\* the POST.
C30_PostedExamStaysListed ==
    \A i \in DOMAIN posts :
        posts[i].status = "ok" => posts[i].r \in ListedExams

\* the multiple-choice entries a step adds to the question set
AddedMcq == (DOMAIN questions'.multiplechoice) \ (DOMAIN questions.multiplechoice)

\* C3: when addMcqQuestion stores a question with option index i selected,
\* the stored tag is "choice" followed by i + 1, and the only option the
\* Questions Added list highlights for that tag is option i.
C3_TagRoundTrip ==
    [][ \A k \in AddedMcq :
          LET tag == questions'.multiplechoice[k].correct
          IN  /\ correctIndex \in 0..3
              /\ tag = <<"c", "h", "o", "i", "c", "e">>
                          \o <<DigitChars[correctIndex + 2]>>
              /\ HighlightedOptions(tag) = {correctIndex} ]_vars

\* a question was stored with the last option selected as correct
C3_Witness ==
    \E k \in DOMAIN questions.multiplechoice :
        /\ questions.multiplechoice[k].correct =
               <<"c", "h", "o", "i", "c", "e", "4">>
        /\ correctIndex = NoIndex

C10_DraftFullyReset ==
    [][ \A i \in DOMAIN posts :
          Settles(i, "ok") =>
            /\ questions' = EmptyQuestions
            /\ testMeta' = DefaultMeta
            /\ step' = 1
            /\ ~isCreatingTest'
            /\ normalQuestion' = EmptyStr
            /\ mcqQuestion' = EmptyStr
            /\ options' = EmptyOptions
            /\ correctIndex' = NoIndex ]_vars

\* C25: the keys of the exam's question set are unique across the whole
\* set: no key of normalQuestions is also a key of multiplechoice.
C25_KeysUniqueAcrossKinds ==
    DOMAIN questions.normalQuestions \cap DOMAIN questions.multiplechoice = {}

\* ------------------------------------------------------------------------
\* Properties of the Homework screen
\* ------------------------------------------------------------------------
DecimalDigits == {"0", "1", "2", "3", "4", "5", "6", "7", "8", "9"}

\* s does not start, after white space and an optional sign, with a digit
NotAnInteger(s) ==
    ~ \E p \in 1..Len(s) :
        /\ \A j \in 1..(p - 1) : s[j] = " "
        /\ \/ s[p] \in DecimalDigits
           \/ /\ s[p] \in {"+", "-"}
              /\ p < Len(s)
              /\ s[p + 1] \in DecimalDigits

\* C4: startHomework for an item whose duration does not parse as an
\* integer changes neither activeHomework nor countdowns, nor the homework
\* list or the requests: the item stays inactive.
C4_BadDurationNoStart ==
    [][ \A n \in 1..MaxCards :
          (startHomework(n) /\ NotAnInteger(homework.list[n].duration)) =>
            /\ UNCHANGED <<activeHomework, countdowns, homework, marks,
                           sId, hwClassname, token>>
            /\ ~IsRunning(homework.list[n].hwId)' ]_vars

\* a start was refused and nothing is running
C4_Witness ==
    /\ console = "Invalid duration for hwId"
    /\ activeHomework = << >>
    /\ countdowns = << >>
    /\ \E n \in DOMAIN homework.list :
          NotAnInteger(homework.list[n].duration)

\* C5: an item started with N >= 0 seconds and neither started again nor
\* completed since shows N - k after k ticks while k <= N, and 0 after
\* that.
C5_CountdownExact ==
    \A id \in DOMAIN timerLog :
        timerLog[id].n >= 0 =>
            /\ id \in DOMAIN countdowns
            /\ countdowns[id] =
                 IF timerLog[id].k <= timerLog[id].n
                 THEN timerLog[id].n - timerLog[id].k
                 ELSE 0

\* a 60-second timer has seen more than 60 ticks
C5_Witness ==
    \E id \in DOMAIN timerLog :
        /\ timerLog[id].n = 60
        /\ timerLog[id].k > 60
        /\ countdowns[id] = 0

\* C6: no entry of countdowns is ever negative.
C6_NeverNegative ==
    \A id \in DOMAIN countdowns : countdowns[id] >= 0

\* C8: a tick issues no update/hwstatus request and changes neither the
\* homework status entries nor activeHomework; an active item whose
\* countdown the tick brings to zero is shown as 'Time Over!'.
C8_TickDoesNotSubmit ==
    [][ Tick =>
          /\ UNCHANGED <<homework, activeHomework, marks>>
          /\ \A n \in DOMAIN homework.list :
                LET hw == homework.list[n]
                IN  (IsRunning(hw.hwId) /\ SecondsLeft(hw.hwId) = 1) =>
                       /\ SecondsLeft(hw.hwId)' = 0
                       /\ TimeBanner(hw)' = "Time Over!"
                       /\ ActionButton(hw)' = "Mark as Read (disabled)" ]_vars

\* a running timer has expired and nothing was submitted
C8_Witness ==
    \E n \in DOMAIN homework.list :
        LET hw == homework.list[n]
        IN  /\ hw.hwId \in DOMAIN timerLog
            /\ timerLog[hw.hwId].n = 60
            /\ timerLog[hw.hwId].k = 60
            /\ TimeBanner(hw) = "Time Over!"
            /\ marks = << >>

\* C19: a tick takes one from every countdown entry above zero, leaves the
\* entries at zero, activeHomework and homework as they are, and leaves
\* countdowns as it is when no entry is above zero.
C19_TickFrame ==
    [][ Tick =>
          /\ DOMAIN countdowns' = DOMAIN countdowns
          /\ \A id \in DOMAIN countdowns :
                /\ countdowns[id] > 0 => countdowns'[id] = countdowns[id] - 1
                /\ countdowns[id] = 0 => countdowns'[id] = 0
          /\ UNCHANGED <<activeHomework, homework>>
          /\ (\A id \in DOMAIN countdowns : ~(countdowns[id] > 0)) =>
                countdowns' = countdowns ]_vars

\* two timers started at different times are both running
C19_Witness ==
    \E a \in DOMAIN countdowns, b \in DOMAIN countdowns :
        /\ a # b
        /\ a \in DOMAIN timerLog /\ b \in DOMAIN timerLog
        /\ timerLog[a].k > timerLog[b].k /\ timerLog[b].k > 0
        /\ countdowns[a] > 0
        /\ countdowns[b] = countdowns[a] + timerLog[a].k - timerLog[b].k

\* a step in which update/hwstatus request i is answered with success
MarkSucceeds(i) ==
    /\ i \in DOMAIN marks /\ i \in DOMAIN marks'
    /\ marks[i].status = "pending"
    /\ marks'[i].status = "ok"

\* the entries of a status list that belong to other students
OfOtherStudent(e) == e.s_id # sId

\* C21: every item has at most one status entry of the current student; a
\* completed item is inactive with countdown 0; a successful
\* markAsCompleted leaves the other items and the entries of other
\* students as they were.
C21_OneEntryPerStudent ==
    /\ [](\A n \in DOMAIN homework.list :
            LET hw == homework.list[n]
            IN  /\ Cardinality({j \in DOMAIN hw.status :
                                   hw.status[j].s_id = sId}) <= 1
                /\ IsCompleted(hw) =>
                      ~IsRunning(hw.hwId) /\ SecondsLeft(hw.hwId) = 0)
    /\ [][ \A i \in DOMAIN marks :
             MarkSucceeds(i) =>
                /\ DOMAIN homework'.list = DOMAIN homework.list
                /\ \A n \in DOMAIN homework.list :
                      LET old == homework.list[n]
                          new == homework'.list[n]
                      IN  /\ old.hwId # marks[i].hwId => new = old
                          /\ SelectSeq(new.status, OfOtherStudent)
                                = SelectSeq(old.status, OfOtherStudent) ]_vars

\* two overlapping markAsCompleted calls for one item have both succeeded,
\* and the item carries an entry of another student as well
C21_Witness ==
    /\ Len(marks) = 2
    /\ marks[1].status = "ok" /\ marks[2].status = "ok"
    /\ marks[1].hwId = marks[2].hwId
    /\ \E n \in DOMAIN homework.list :
          LET hw == homework.list[n]
          IN  /\ hw.hwId = marks[1].hwId
              /\ IsCompleted(hw)
              /\ Len(hw.status) = 2
              /\ \E j \in DOMAIN hw.status : hw.status[j].s_id # sId

\* a step in which update/hwstatus request i fails
MarkFails(i) ==
    /\ i \in DOMAIN marks /\ i \in DOMAIN marks'
    /\ marks[i].status = "pending"
    /\ marks'[i].status = "failed"

\* C22: a markAsCompleted call made with no token or with a duration that
\* is not an integer issues no request, and such a call, like a failed
\* update/hwstatus request, leaves homework, activeHomework and countdowns
\* unchanged.
C22_FailedMarkKeepsState ==
    [][ /\ \A n \in 1..MaxCards :
             (/\ markAsCompleted(n)
              /\ \/ token = NULL
                 \/ NotAnInteger(homework.list[n].duration)) =>
                /\ marks' = marks
                /\ UNCHANGED <<homework, activeHomework, countdowns>>
        /\ \A i \in DOMAIN marks :
             MarkFails(i) =>
                UNCHANGED <<homework, activeHomework, countdowns>> ]_vars

\* one attempt failed at the request and a later one found no token; the
\* timer of the item is still running and the item is not completed
C22_Witness ==
    /\ token = NULL
    /\ console = "No token found. Cannot mark homework as completed."
    /\ Len(marks) = 1
    /\ marks[1].status = "failed"
    /\ IsRunning(marks[1].hwId)
    /\ SecondsLeft(marks[1].hwId) > 0
    /\ \A n \in DOMAIN homework.list :
          homework.list[n].hwId = marks[1].hwId =>
             ~IsCompleted(homework.list[n])

\* card n is active with countdown zero and not completed
Expired(n) ==
    /\ Shown(n)
    /\ IsRunning(homework.list[n].hwId)
    /\ SecondsLeft(homework.list[n].hwId) = 0
    /\ ~IsCompleted(homework.list[n])

\* neither startHomework nor markAsCompleted can be invoked from card n
NoActionOffered(n) ==
    /\ ActionButton(homework.list[n]) \notin {"Start", "Mark as Read"}
    /\ ~ENABLED startHomework(n)
    /\ ~ENABLED markAsCompleted(n)

\* card n shows its item as completed
CompletedCard(n) == Shown(n) /\ IsCompleted(homework.list[n])

\* C24 as stated: once an item is active with countdown zero and not
\* completed it stays so for the rest of the screen's life, and in that
\* condition neither Start nor Mark as Read can be invoked for it; so it
\* never becomes completed.
C24_ExpiredNeverCompleted ==
    /\ [](\A n \in 1..MaxCards : Expired(n) => NoActionOffered(n))
    /\ [][\A n \in 1..MaxCards : Expired(n) => Expired(n)']_vars

\* C24, amended: an item that is active with countdown zero and not
\* completed offers neither Start nor an enabled Mark as Read, and it
\* leaves that condition only by becoming completed, through the success
\* of an update/hwstatus request for it that was already pending; a
\* completed item stays completed and offers no action either.
C24_ExpiredLeavesOnlyByPendingMark ==
    /\ [](\A n \in 1..MaxCards :
             Expired(n) \/ CompletedCard(n) => NoActionOffered(n))
    /\ [][\A n \in 1..MaxCards :
             /\ CompletedCard(n) => CompletedCard(n)'
             /\ Expired(n) =>
                   \/ Expired(n)'
                   \/ /\ CompletedCard(n)'
                      /\ \E i \in DOMAIN marks :
                            /\ MarkSucceeds(i)
                            /\ marks[i].hwId = homework.list[n].hwId]_vars

\* the timer of an item ran down to zero while an update/hwstatus request
\* for it is pending
C24_Witness ==
    \E n \in 1..MaxCards :
        /\ Expired(n)
        /\ timerLog[homework.list[n].hwId].n > 0
        /\ \E i \in DOMAIN marks :
              /\ marks[i].status = "pending"
              /\ marks[i].hwId = homework.list[n].hwId

\* C15: with no stored token the Homework screen issues no request and
\* shows something other than what it shows for an empty homework list.
C15_NoTokenShowsError ==
    token = NULL =>
        /\ userInfoReq = "none"
        /\ homeworkReq = "none"
        /\ marks = << >>
        /\ HomeworkView(homework) # HomeworkView(List(<< >>))

\* ------------------------------------------------------------------------
\* Properties of the FlashCards screen
\* ------------------------------------------------------------------------
\* C7: for every deck of the list, the displayed cardsCount is the number
\* of question/answer pairs that follow the leading details record,
\* whatever fields the details record carries.
C7_CountExcludesDetails ==
    \A n \in DOMAIN flashcard :
        Len(ContentOrEmpty(flashcard[n])) > 0 =>
           CardsCount(flashcard[n]) = Len(flashcard[n].content) - 1

\* C17: every deck of the list renders; a deck whose content is absent or
\* empty shows 0 cards and the time "N/A", a deck without progress shows
\* 0, and the title is the first non-empty one of title, the subject of
\* the details record, the top-level subject, "Untitled Deck".
C17_SparseDeckRenders ==
    \A n \in DOMAIN flashcard :
        LET card == flashcard[n]
            tile == DeckTile(card)
        IN  /\ ~tile.threw
            /\ ContentOrEmpty(card) = << >> =>
                   /\ tile.cardsCount = 0
                   /\ tile.timeTaken = "N/A"
            /\ ~Has(card, "progress") => tile.progress = 0
            /\ tile.title =
                   IF Has(card, "title") /\ card.title # "" THEN card.title
                   ELSE IF card.content # << >>
                           /\ Has(card.content[1], "subject")
                           /\ card.content[1]["subject"].v # ""
                        THEN card.content[1]["subject"].v
                   ELSE IF Has(card, "subject") /\ card.subject # ""
                        THEN card.subject
                   ELSE "Untitled Deck"

\* a Generate attempt has ended in failure
GenFailed(i) ==
    i \in DOMAIN gens /\ gens[i].status \in {"post failed", "read failed"}

\* the step in which Generate attempt i ends in failure
GenFails(i) == GenerateFail(i) /\ ~GenFailed(i) /\ GenFailed(i)'

\* attempt i is the only one whose generate/flashcard POST was answered
OnlyPosted(i) ==
    \A j \in DOMAIN gens :
        j # i => gens[j].status \in {"posting", "post failed"}

\* C23: a Generate attempt that ends in failure, of the POST or of the
\* follow-up read, leaves the state as it was before the attempt: the
\* failing step keeps youtubeUrl, the open modal and the deck list and
\* ends with loading false, and the stored flash_id is the one that was
\* stored when the attempt started.
C23_FailedGenerateKeepsState ==
    /\ [][\A i \in 1..MaxGens :
             GenFails(i) =>
                /\ UNCHANGED <<youtubeUrl, showModal, flashcard>>
                /\ flashLoading' = FALSE]_vars
    /\ [](\A i \in 1..MaxGens :
             GenFailed(i) /\ OnlyPosted(i) =>
                flash_id = gens[i].storedBefore)

\* C28: the cardsCount displayed on the tile of a deck equals the number
\* of cards placed in selectedDeck.cards when that deck is opened.
C28_CountIsCardsOpened ==
    [][\A n \in 1..MaxDecks :
          OpenDeck(n) =>
             Len(selectedDeck'.cards) = DeckTile(flashcard[n]).cardsCount]_vars

\* every request the screen issued has been answered successfully, and
\* there was at least one
AllSettledOk ==
    /\ getFlash \in {"none", "ok"}
    /\ \A i \in DOMAIN gens : gens[i].status = "done"
    /\ getFlash = "ok" \/ gens # << >>

\* C27: once every issued request has settled successfully, the displayed
\* deck list is the response of get/flashcard for the flash_id that is
\* stored in local storage, whatever the order of the responses of the
\* mount-time read and of the Generate flows.
C27_DecksOfStoredFlashId == AllSettledOk => deckSource = flash_id

\* ------------------------------------------------------------------------
\* Properties of the CreateMeeting screen
\* ------------------------------------------------------------------------
\* className holds nothing but spaces (it may be empty)
ClassNameBlank == \A k \in DOMAIN className : className[k] = " "

\* C11: while className is empty or whitespace-only no create/meet request
\* is issued, and a handleSubmit invoked then leaves meeting, className,
\* meetings and startUrl unchanged.
C11_BlankClassNotSubmitted ==
    [][ ClassNameBlank =>
          /\ Len(creates') = Len(creates)
          /\ handleSubmit =>
                UNCHANGED <<meeting, className, meetings, startUrl>> ]_vars

\* handleSubmit has refused a whitespace-only class name
C11_Witness ==
    /\ meetAlert = "Class name is required."
    /\ className = <<" ">>
    /\ creates = << >>

\* the instant of the date and the time last entered, read in the local
\* timezone
EnteredInstant ==
    IF enteredDate = Blank \/ enteredTime = Blank THEN Blank
    ELSE enteredDate * MinutesPerDay + enteredTime - tzOffset

\* C12: meeting.start_time is empty when the date or the time last entered
\* is empty, and otherwise is the UTC instant of the date last entered
\* combined with the time last entered, in every timezone.
C12_StartTimeIsEntered == meeting.start_time = EnteredInstant

\* C29: after the user has changed the date input or the time input and
\* the start_time effect has run, the changed input holds the value that
\* was entered and the other input holds what it held before, in every
\* timezone; so with date D and time T entered, selectedDate = D and
\* selectedTime = T.
C29_InputsKeepEntry ==
    [][\A name \in {"date", "time"} :
          \A value \in DateValues \cup TimeValues :
             handleDateTimeChange(name, value) =>
                IF name = "date"
                THEN selectedDate' = value /\ selectedTime' = selectedTime
                ELSE selectedTime' = value /\ selectedDate' = selectedDate]_vars

\* a step in which create/meet request i is answered with success true
CreateSucceeds(i) ==
    /\ i \in DOMAIN creates
    /\ creates[i].status = "pending"
    /\ creates'[i].status = "created"

\* C13: when a create/meet request succeeds the draft is reset to its
\* default, className and the date and time inputs are empty after the
\* effects, and one more get/meetdata request is pending.
C13_SuccessResetsDraft ==
    [][ \A i \in DOMAIN creates :
          CreateSucceeds(i) =>
             /\ meeting' = MeetingDefault
             /\ className' = EmptyStr
             /\ selectedDate' = Blank
             /\ selectedTime' = Blank
             /\ Len(meetFetches') = Len(meetFetches) + 1
             /\ meetFetches'[Len(meetFetches')] = "pending" ]_vars

\* ------------------------------------------------------------------------
\* Properties of the student ExamAndTests screen
\* ------------------------------------------------------------------------
\* the validation request was answered and the answer carried no classname
NoClassnameAnswered == validateReq = "ok" /\ classname = NULL

\* C14: with no stored token, or after a validation answer without a
\* classname, the screen shows the error (error non-null, loading false)
\* and no get/exam request has been issued.
C14_NoContextShowsError ==
    (token = NULL \/ NoClassnameAnswered) =>
        /\ error # NULL
        /\ ~loading
        /\ EtView = "Error"
        /\ examReqs = << >>

\* the validation was answered without a classname and the error is shown
C14_Witness ==
    /\ token # NULL
    /\ NoClassnameAnswered
    /\ error = "User validation failed: Classname not found in validation response."
    /\ EtView = "Error"

\* the validation request is answered, and so is the get/exam request that
\* follows a classname
EtSettled ==
    /\ validateReq # "pending"
    /\ classname # NULL => Len(examReqs) > 0
    /\ \A i \in DOMAIN examReqs : examReqs[i].status # "pending"

\* C18: once the validation request and the exam fetch, if any, are
\* settled by success or by failure, the screen shows the exam list or an
\* error and never shows the loading state again.
C18_SettledLeavesLoading ==
    [](EtSettled =>
         [](/\ ~loading
            /\ EtView \in {"Error", "exams",
                            "No exams available for your class yet."}))

\* both requests are settled, the second by a failure, and the error shows
C18_Witness ==
    /\ validateReq = "ok"
    /\ Len(examReqs) = 1
    /\ examReqs[1].status = "failed"
    /\ ~loading
    /\ EtView = "Error"

\* the list view is on the screen: loading false and error null
ListViewRendered ==
    EtView \in {"exams", "No exams available for your class yet."}

\* C26: the list view is rendered only after a get/exam request has
\* completed successfully; in particular it is not rendered between the
\* end of the token validation and the start of the exam fetch.
C26_ListOnlyAfterFetch ==
    ListViewRendered =>
        \E i \in DOMAIN examReqs : examReqs[i].status = "ok"

\* C20: get/homework and get/exam are issued only with a non-empty
\* classname, never while classname is null, and once for the classname
\* obtained: a settled request is not issued again.
C20_ReadsFollowClassname ==
    /\ [](/\ homeworkReq # "none" <=> hwClassname # NULL
          /\ hwClassname # ""
          /\ Len(examReqs) <= (IF classname = NULL THEN 0 ELSE 1)
          /\ (classname # NULL /\ examsEffect = "idle") => Len(examReqs) = 1
          /\ \A i \in DOMAIN examReqs :
                examReqs[i].classname = classname /\ classname # "")
    /\ [][homeworkReq' = "pending" => homeworkReq \in {"none", "pending"}]_vars

\* both collection reads were issued, each for the classname obtained
C20_Witness ==
    /\ hwClassname = "c1" /\ homeworkReq = "ok"
    /\ classname = "c1" /\ Len(examReqs) = 1 /\ examReqs[1].status = "ok"

\* ------------------------------------------------------------------------
\* Pending asynchronous actors
\* ------------------------------------------------------------------------
\* A pending actor is a request whose continuation has not run yet, or an
\* armed timer; writes are the state variables and storage keys that its
\* continuation or callback sets.
Actor(name, i, writes) == [actor |-> <<name, i>>, writes |-> writes]

ExamActors ==
    (IF getExam = "pending"
     THEN {Actor("fetchExamData", 1, {"quizData"})} ELSE {})
    \cup
    { Actor("handlePostTest", i,
            {"quizData", "questions", "testMeta", "step", "isCreatingTest"}) :
        i \in {j \in DOMAIN posts : posts[j].status = "pending"} }

\* the Homework screen is mounted: getUserInfo has run
HwMounted == userInfoReq # "none" \/ console # NULL

HwActors ==
    (IF userInfoReq = "pending"
     THEN {Actor("getUserInfo", 1, {"classname", "sId"})} ELSE {})
    \cup
    (IF homeworkReq = "pending"
     THEN {Actor("fetchHomework", 1, {"homework"})} ELSE {})
    \cup
    (IF HwMounted THEN {Actor("setInterval", 1, {"countdowns"})} ELSE {})
    \cup
    { Actor("markAsCompleted", i,
            {"homework", "activeHomework", "countdowns"}) :
        i \in {j \in DOMAIN marks : marks[j].status = "pending"} }

FlashActors ==
    (IF getFlash = "pending"
     THEN {Actor("fetchFlashcardDecks", 1, {"flashcard"})} ELSE {})
    \cup
    { Actor("Generate", i, {"flash_id", "flashcard", "youtubeUrl",
                            "showModal", "loading"}) :
        i \in {j \in DOMAIN gens :
                  gens[j].status \in {"posting", "reading"}} }

MeetActors ==
    { Actor("fetchMeetings", i, {"meetings"}) :
        i \in {j \in DOMAIN meetFetches : meetFetches[j] = "pending"} }
    \cup
    { Actor("handleSubmit", i, {"startUrl", "meeting", "className"}) :
        i \in {j \in DOMAIN creates : creates[j].status = "pending"} }

EtActors ==
    (IF validateReq = "pending"
     THEN {Actor("validateToken", 1, {"classname", "error", "loading"})}
     ELSE {})
    \cup
    { Actor("fetchExams", i, {"exams", "error", "loading"}) :
        i \in {j \in DOMAIN examReqs : examReqs[j].status = "pending"} }

PendingActors ==
    ExamActors \cup HwActors \cup FlashActors \cup MeetActors \cup EtActors

\* C16: no two pending asynchronous actors write the same state variable
\* or storage key.
C16_SingleWriter ==
    \A a \in PendingActors, b \in PendingActors :
        a # b => a.writes \cap b.writes = {}
====
